---- MODULE Spec2Model ----
(***************************************************************************)
(* PRS (SEGA LZ77) codec: the bit-interleaved sink, the streaming encoder  *)
(* around it and the buffer decoder, for the Legacy and Modern dialects.    *)
(* Bytes are integers 0..255, buffers are sequences of bytes (1-based      *)
(* here, 0-based in the source: cmd_index and cursor positions keep the    *)
(* source's 0-based values).                                                *)
(***************************************************************************)
EXTENDS Integers, Sequences, FiniteSets, TLC

VARIABLES
    variant,        \* V of PrsEncoder<W, V>: "Legacy" or "Modern"
    sink,           \* PrsSink: [cmd_index, cmd_bits_rem, out]
    sink_is_some,   \* self.sink.is_some()
    inner_is_some,  \* self.inner.is_some()
    down,           \* the bytes the downstream writer W has accepted
    raw,            \* every byte handed to the match-finder by write
    enc_pos,        \* how many bytes of raw the match-finder has turned into codes
    tokens,         \* the codes the sink has consumed, in order
    pc,             \* "open", "returned" (into_inner done), "closed", "dropped"
    ncalls,         \* number of write and flush calls made
    last,           \* the last call that acted: [op, ret, sent, suppressed]
    dec,            \* the last decoding: [called, input, res], res[F] for each dialect F
    fb,             \* a flush_buf call on its own: [called, sink, script, res]
    pt              \* a consume call on its own: [called, code, panics, stream, res]

vars == <<variant, sink, sink_is_some, inner_is_some, down, raw, enc_pos,
          tokens, pc, ncalls, last, dec, fb, pt>>

Variants == {"Legacy", "Modern"}

(***************************************************************************)
(* Dialect constants.                                                       *)
(***************************************************************************)
U8MAX == 255

\* A mutant of MIN_LONG_COPY_LENGTH: both dialects use the Legacy constant.
MIN_LONG_COPY_LENGTH_same(V) == IF V = "Legacy" THEN 1 ELSE 1

MIN_LONG_COPY_LENGTH(V) == IF V = "Legacy" THEN 1 ELSE 10

\* A mutant of MAX_COPY_LENGTH: one more than the extended-length byte can hold.
MAX_COPY_LENGTH_wide(V) == U8MAX + MIN_LONG_COPY_LENGTH(V) + 1

MAX_COPY_LENGTH(V) == U8MAX + MIN_LONG_COPY_LENGTH(V)

\* libflate_lz77::MAX_LENGTH, the match-finder's own longest match
MAX_LENGTH == 258

\* window_size given to the match-finder
WINDOW_SIZE == 8191

(***************************************************************************)
(* Integer helpers: two's-complement bit operations on (unbounded) signed  *)
(* integers, which agree with i32 on the values the codec computes.        *)
(***************************************************************************)
Min(a, b) == IF a < b THEN a ELSE b

Pow2(k) == 2 ^ k

RECURSIVE BitOr(_, _)
BitOr(a, b) ==
    IF a = 0 THEN b
    ELSE IF b = 0 THEN a
    ELSE IF a = -1 \/ b = -1 THEN -1
    ELSE (IF a % 2 = 1 \/ b % 2 = 1 THEN 1 ELSE 0) + 2 * BitOr(a \div 2, b \div 2)

RECURSIVE BitAnd(_, _)
BitAnd(a, b) ==
    IF a = 0 \/ b = 0 THEN 0
    ELSE IF a = -1 THEN b
    ELSE IF b = -1 THEN a
    ELSE (IF a % 2 = 1 /\ b % 2 = 1 THEN 1 ELSE 0) + 2 * BitAnd(a \div 2, b \div 2)

\* x as u8, x as u16
AsU8(x) == x % 256

AsU16(x) == x % 65536

\* u16::to_le_bytes
ToLeBytes16(x) == <<x % 256, x \div 256>>

\* A mutant of I16FromLe: reads the two bytes most significant first.
I16FromBe(b0, b1) ==
    LET u == b1 + 256 * b0 IN IF u >= 32768 THEN u - 65536 ELSE u

\* i16::from_le_bytes(buf) as i32
I16FromLe(b0, b1) ==
    LET u == b0 + 256 * b1 IN IF u >= 32768 THEN u - 65536 ELSE u

\* bit k (0 = least significant) of a byte
BitOf(byte, k) == (byte \div Pow2(k)) % 2

SubSeqFrom(s, k) == SubSeq(s, k + 1, Len(s))   \* &s[k..]

(***************************************************************************)
(* PrsSink                                                                  *)
(***************************************************************************)
\* PrsSink::new
NewSink == [cmd_index |-> 0, cmd_bits_rem |-> 0, out |-> <<>>]

\* A mutant of write_bit: fills the command byte from the most significant bit.
write_bit_msb(s, bit) ==
    LET a == IF s.cmd_bits_rem = 0
             THEN [cmd_index |-> Len(s.out), cmd_bits_rem |-> 8,
                   out |-> Append(s.out, 0)]
             ELSE s
        b == IF bit
             THEN [a EXCEPT !.out[a.cmd_index + 1] =
                      BitOr(@, Pow2(a.cmd_bits_rem - 1))]
             ELSE a
    IN [b EXCEPT !.cmd_bits_rem = @ - 1]

\* A mutant of write_bit: the count of free command bits is not reduced.
write_bit_norem(s, bit) ==
    LET a == IF s.cmd_bits_rem = 0
             THEN [cmd_index |-> Len(s.out), cmd_bits_rem |-> 8,
                   out |-> Append(s.out, 0)]
             ELSE s
    IN IF bit
       THEN [a EXCEPT !.out[a.cmd_index + 1] = BitOr(@, Pow2(8 - a.cmd_bits_rem))]
       ELSE a

write_bit(s, bit) ==
    LET a == IF s.cmd_bits_rem = 0
             THEN [cmd_index |-> Len(s.out), cmd_bits_rem |-> 8,
                   out |-> Append(s.out, 0)]
             ELSE s
        b == IF bit
             THEN [a EXCEPT !.out[a.cmd_index + 1] =
                      BitOr(@, Pow2(8 - a.cmd_bits_rem))]
             ELSE a
    IN [b EXCEPT !.cmd_bits_rem = @ - 1]

push(s, byte) == [s EXCEPT !.out = Append(@, byte)]

\* PrsSink::finish; the sink record is kept whole, the source returns its out
finish(s) == push(push(write_bit(write_bit(s, FALSE), TRUE), 0), 0)

Literal(b) == [kind |-> "Literal", b |-> b, length |-> 1, backward_distance |-> 0]

Pointer(l, d) == [kind |-> "Pointer", b |-> 0, length |-> l, backward_distance |-> d]

\* the three precondition panics of consume
consume_panics(V, code) ==
    /\ code.kind = "Pointer"
    /\ \/ code.length < 2
       \/ code.length > MAX_COPY_LENGTH(V)
       \/ code.backward_distance >= 8192

\* A mutant of is_long_ptr: every pointer takes the long form.
is_long_ptr_always(code) == code.backward_distance >= 1

is_long_ptr(code) == code.backward_distance >= 256 \/ code.length > 5

\* A mutant of consume_long: the distance is stored without negation.
consume_long_pos(V, s, code) ==
    LET s2 == write_bit(write_bit(s, FALSE), TRUE)
        off0 == code.backward_distance * 8
        offset == IF code.length - 2 < 8 THEN BitOr(off0, code.length - 2) ELSE off0
        le == ToLeBytes16(AsU16(offset))
        s3 == push(push(s2, le[1]), le[2])
    IN IF code.length - 2 >= 8
       THEN push(s3, AsU8(AsU16(code.length - MIN_LONG_COPY_LENGTH(V))))
       ELSE s3

consume_long(V, s, code) ==
    LET s2 == write_bit(write_bit(s, FALSE), TRUE)
        off0 == (-code.backward_distance) * 8
        offset == IF code.length - 2 < 8 THEN BitOr(off0, code.length - 2) ELSE off0
        le == ToLeBytes16(AsU16(offset))
        s3 == push(push(s2, le[1]), le[2])
    IN IF code.length - 2 >= 8
       THEN push(s3, AsU8(AsU16(code.length - MIN_LONG_COPY_LENGTH(V))))
       ELSE s3

consume_short(s, code) ==
    LET s2 == write_bit(write_bit(s, FALSE), FALSE)
        offset == code.backward_distance
        size == code.length - 2
        s3 == write_bit(s2, BitAnd(size, 2) > 0)
        s4 == write_bit(s3, BitAnd(size, 1) > 0)
    IN push(s4, AsU8(BitAnd(-offset, 255)))

\* Sink::consume for a code that does not panic
consume(V, s, code) ==
    IF code.kind = "Literal" THEN push(write_bit(s, TRUE), code.b)
    ELSE IF is_long_ptr(code) THEN consume_long(V, s, code)
    ELSE consume_short(s, code)

RECURSIVE consume_all(_, _, _)
consume_all(V, s, codes) ==
    IF codes = <<>> THEN s
    ELSE consume_all(V, consume(V, s, Head(codes)), Tail(codes))

(***************************************************************************)
(* Decoder: Ctx over the input buffer, cursor position pos (bytes read).   *)
(***************************************************************************)
\* Ctx::new
NewCtx == [pos |-> 0, cmds |-> 0, rem |-> 0]

\* cursor.read_exact of n bytes succeeds
can_read(ctx, buf, n) == ctx.pos + n <= Len(buf)

\* Ctx::read_bit: [ok, bit, ctx]; ok = FALSE is Err(Eof)
read_bit(ctx, buf) ==
    IF ctx.rem = 0 /\ ~can_read(ctx, buf, 1)
    THEN [ok |-> FALSE, bit |-> FALSE, ctx |-> ctx]
    ELSE LET c == IF ctx.rem = 0
                  THEN [pos |-> ctx.pos + 1, cmds |-> buf[ctx.pos + 1], rem |-> 8]
                  ELSE ctx
             ret == BitAnd(c.cmds, 1)
         IN [ok |-> TRUE, bit |-> (ret # 0),
             ctx |-> [c EXCEPT !.cmds = @ \div 2, !.rem = @ - 1]]

\* values of next_cmd: Err(Eof), Ok(None), Ok(Some(Literal)), Ok(Some(Pointer))
CmdEof(ctx) == [st |-> "Eof", form |-> "none", b |-> 0, dist |-> 0, len |-> 0, ctx |-> ctx]

CmdNone(ctx) == [st |-> "None", form |-> "long", b |-> 0, dist |-> 0, len |-> 0, ctx |-> ctx]

CmdLiteral(b, ctx) ==
    [st |-> "Literal", form |-> "literal", b |-> b, dist |-> 0, len |-> 1, ctx |-> ctx]

\* A mutant of CmdPointer: the distance is one too far.
CmdPointer_far(form, dist, len, ctx) ==
    [st |-> "Pointer", form |-> form, b |-> 0, dist |-> dist + 1, len |-> len, ctx |-> ctx]

CmdPointer(form, dist, len, ctx) ==
    [st |-> "Pointer", form |-> form, b |-> 0, dist |-> dist, len |-> len, ctx |-> ctx]

\* A mutant of next_cmd_long: the length without extension byte is counted
\* from the dialect's MIN_LONG_COPY_LENGTH.
next_cmd_long_min(F, ctx, buf) ==
    IF ~can_read(ctx, buf, 2) THEN CmdEof([ctx EXCEPT !.pos = Len(buf)])
    ELSE LET raw16 == I16FromLe(buf[ctx.pos + 1], buf[ctx.pos + 2])
             c2 == [ctx EXCEPT !.pos = @ + 2]
             size0 == BitAnd(raw16, 7)
             offset == BitOr(raw16 \div 8, -8192)
         IN IF raw16 = 0 THEN CmdNone(c2)
            ELSE IF size0 = 0
            THEN IF ~can_read(c2, buf, 1) THEN CmdEof(c2)
                 ELSE CmdPointer("longext", -offset,
                                 buf[c2.pos + 1] + MIN_LONG_COPY_LENGTH(F),
                                 [c2 EXCEPT !.pos = @ + 1])
            ELSE CmdPointer("long", -offset, size0 + MIN_LONG_COPY_LENGTH(F) + 1, c2)

\* the long-pointer branch of next_cmd, after its two prefix bits; a
\* read_exact of the 2-byte field that fails leaves the cursor at the end of
\* the buffer, also when one byte was left
next_cmd_long(F, ctx, buf) ==
    IF ~can_read(ctx, buf, 2) THEN CmdEof([ctx EXCEPT !.pos = Len(buf)])
    ELSE LET raw16 == I16FromLe(buf[ctx.pos + 1], buf[ctx.pos + 2])
             c2 == [ctx EXCEPT !.pos = @ + 2]
             size0 == BitAnd(raw16, 7)
             offset == BitOr(raw16 \div 8, -8192)
         IN IF raw16 = 0 THEN CmdNone(c2)
            ELSE IF size0 = 0
            THEN IF ~can_read(c2, buf, 1) THEN CmdEof(c2)
                 ELSE CmdPointer("longext", -offset,
                                 buf[c2.pos + 1] + MIN_LONG_COPY_LENGTH(F),
                                 [c2 EXCEPT !.pos = @ + 1])
            ELSE CmdPointer("long", -offset, size0 + 2, c2)

\* the short-pointer branch of next_cmd, after its two prefix bits
next_cmd_short(ctx, buf) ==
    LET r1 == read_bit(ctx, buf)
        r2 == read_bit(r1.ctx, buf)
        flag == IF r1.bit THEN 1 ELSE 0
        bit == IF r2.bit THEN 1 ELSE 0
        size == BitOr(bit, flag * 2) + 2
    IN IF ~r1.ok THEN CmdEof(ctx)
       ELSE IF ~r2.ok THEN CmdEof(r1.ctx)
       ELSE IF ~can_read(r2.ctx, buf, 1) THEN CmdEof(r2.ctx)
       ELSE CmdPointer("short", -BitOr(buf[r2.ctx.pos + 1], -256), size,
                       [r2.ctx EXCEPT !.pos = @ + 1])

\* Ctx::next_cmd
next_cmd(F, ctx, buf) ==
    LET r1 == read_bit(ctx, buf)
        r2 == read_bit(r1.ctx, buf)
    IN IF ~r1.ok THEN CmdEof(ctx)
       ELSE IF r1.bit
       THEN IF ~can_read(r1.ctx, buf, 1) THEN CmdEof(r1.ctx)
            ELSE CmdLiteral(buf[r1.ctx.pos + 1], [r1.ctx EXCEPT !.pos = @ + 1])
       ELSE IF ~r2.ok THEN CmdEof(r1.ctx)
       ELSE IF r2.bit THEN next_cmd_long(F, r2.ctx, buf)
       ELSE next_cmd_short(r2.ctx, buf)

\* values of decompress_buf; trace lists the commands met, each with the
\* output length at the moment it was met
NoErr == [kind |-> "None", dist |-> 0, len |-> 0, current_len |-> 0]

DecOk(out, trace, ctx) ==
    [ok |-> TRUE, out |-> out, err |-> NoErr, trace |-> trace, pos |-> ctx.pos]

\* A mutant of DecEof: the end of the input is taken for the end of the stream.
DecEof_ok(trace, ctx) ==
    [ok |-> TRUE, out |-> <<>>, err |-> NoErr, trace |-> trace, pos |-> ctx.pos]

DecEof(trace, ctx) ==
    [ok |-> FALSE, out |-> <<>>,
     err |-> [kind |-> "Eof", dist |-> 0, len |-> 0, current_len |-> 0],
     trace |-> trace, pos |-> ctx.pos]

DecInvalidPointer(dist, len, current_len, trace, ctx) ==
    [ok |-> FALSE, out |-> <<>>,
     err |-> [kind |-> "InvalidPointer", dist |-> dist, len |-> len,
              current_len |-> current_len],
     trace |-> trace, pos |-> ctx.pos]

\* A mutant of copy_loop: a pointer the window cannot serve is skipped.
copy_loop_unchecked(out, dist, n) ==
    IF n = 0 \/ dist = 0 \/ Len(out) < dist THEN [ok |-> TRUE, out |-> out]
    ELSE [ok |-> TRUE,
          out |-> out \o [i \in 1..n |-> out[Len(out) - dist + 1 + ((i - 1) % dist)]]]

\* the copy loop of a Pointer command: [ok, out].  Each iteration fails when
\* the distance is 0 or reaches before the output and otherwise appends the
\* byte dist places back, so only the first iteration can fail and the n
\* appended bytes repeat the last dist bytes of out with period dist.
copy_loop(out, dist, n) ==
    IF n = 0 THEN [ok |-> TRUE, out |-> out]
    ELSE IF dist = 0 \/ Len(out) < dist THEN [ok |-> FALSE, out |-> out]
    ELSE [ok |-> TRUE,
          out |-> out \o [i \in 1..n |-> out[Len(out) - dist + 1 + ((i - 1) % dist)]]]

RECURSIVE decompress_loop(_, _, _, _, _)
decompress_loop(F, buf, ctx, out, trace) ==
    LET cmd == next_cmd(F, ctx, buf)
        tr == Append(trace, [st |-> cmd.st, form |-> cmd.form, dist |-> cmd.dist,
                             len |-> cmd.len, at |-> Len(out)])
    IN IF cmd.st = "Eof" THEN DecEof(trace, cmd.ctx)
       ELSE IF cmd.st = "None" THEN DecOk(out, tr, cmd.ctx)
       ELSE IF cmd.st = "Literal"
       THEN decompress_loop(F, buf, cmd.ctx, Append(out, cmd.b), tr)
       ELSE LET c == copy_loop(out, cmd.dist, cmd.len)
            IN IF c.ok THEN decompress_loop(F, buf, cmd.ctx, c.out, tr)
               ELSE DecInvalidPointer(cmd.dist, cmd.len, Len(c.out), tr, cmd.ctx)

\* decompress_buf
decompress_buf(F, buf) ==
    IF buf = <<>> THEN DecOk(<<>>, <<>>, NewCtx)
    ELSE decompress_loop(F, buf, NewCtx, <<>>, <<>>)

(***************************************************************************)
(* The downstream writer W.  A call inner.write(buf) answers with one of   *)
(* the responses below; a script is the sequence of answers W gives to the *)
(* next calls, and once it is used up W accepts whatever it is handed.     *)
(***************************************************************************)
MaxScript == 2

\* the most bytes a short write accepts
ShortWrite == 1

Responses ==
    {[t |-> "Ok", n |-> k] : k \in 0..ShortWrite}
        \cup {[t |-> "Interrupted", n |-> 0], [t |-> "Err", n |-> 0]}

AcceptAll == [t |-> "All", n |-> 0]

Scripts == UNION {[1..k -> Responses] : k \in 0..MaxScript}

next_resp(script) == IF script = <<>> THEN AcceptAll ELSE Head(script)

rest_script(script) == IF script = <<>> THEN <<>> ELSE Tail(script)

\* the value of inner.write(buf) under response r: Ok(n), Interrupted or Err
inner_write(buf, r) ==
    IF r.t = "All" THEN [t |-> "Ok", n |-> Len(buf)]
    ELSE IF r.t = "Ok" THEN [t |-> "Ok", n |-> Min(r.n, Len(buf))]
    ELSE r

\* A mutant of flush_loop: an Interrupted write ends the flush like any error.
RECURSIVE flush_loop_giveup(_, _, _, _, _, _)
flush_loop_giveup(out, written, len, dn, script, io) ==
    IF ~(written < len)
    THEN [written |-> written, ret |-> "Ok", down |-> dn, script |-> script, io |-> io]
    ELSE LET r == inner_write(SubSeq(out, written + 1, len), next_resp(script))
             io2 == Append(io, r)
             sc2 == rest_script(script)
         IN IF r.t = "Ok" /\ r.n = 0
            THEN [written |-> written, ret |-> "WriteZero", down |-> dn,
                  script |-> sc2, io |-> io2]
            ELSE IF r.t = "Ok"
            THEN flush_loop_giveup(out, written + r.n, len,
                                   dn \o SubSeq(out, written + 1, written + r.n), sc2, io2)
            ELSE [written |-> written, ret |-> "Other", down |-> dn,
                  script |-> sc2, io |-> io2]

\* the while loop of flush_buf over sink.out[written..len]
RECURSIVE flush_loop(_, _, _, _, _, _)
flush_loop(out, written, len, dn, script, io) ==
    IF ~(written < len)
    THEN [written |-> written, ret |-> "Ok", down |-> dn, script |-> script, io |-> io]
    ELSE LET r == inner_write(SubSeq(out, written + 1, len), next_resp(script))
             io2 == Append(io, r)
             sc2 == rest_script(script)
         IN IF r.t = "Ok" /\ r.n = 0
            THEN [written |-> written, ret |-> "WriteZero", down |-> dn,
                  script |-> sc2, io |-> io2]
            ELSE IF r.t = "Ok"
            THEN flush_loop(out, written + r.n, len,
                            dn \o SubSeq(out, written + 1, written + r.n), sc2, io2)
            ELSE IF r.t = "Interrupted"
            THEN flush_loop(out, written, len, dn, sc2, io2)
            ELSE [written |-> written, ret |-> "Other", down |-> dn,
                  script |-> sc2, io |-> io2]

\* A mutant of flush_buf: the bytes written are not drained from the sink.
flush_buf_nodrain(s, dn, script) ==
    LET high_water == s.cmd_index
        r == flush_loop(s.out, 0, high_water, dn, script, <<>>)
    IN IF high_water = 0
       THEN [sink |-> s, down |-> dn, ret |-> "Ok", script |-> script, io |-> <<>>]
       ELSE [sink |-> s, down |-> r.down, ret |-> r.ret, script |-> r.script,
             io |-> r.io]

\* A mutant of flush_buf: the in-flight command byte is sent as well.
flush_buf_over(s, dn, script) ==
    LET high_water == IF s.out = <<>> THEN 0 ELSE s.cmd_index + 1
        r == flush_loop(s.out, 0, high_water, dn, script, <<>>)
    IN IF high_water = 0
       THEN [sink |-> s, down |-> dn, ret |-> "Ok", script |-> script, io |-> <<>>]
       ELSE [sink |-> IF r.written > 0
                      THEN [s EXCEPT !.out = SubSeqFrom(@, r.written),
                                     !.cmd_index = @ - r.written]
                      ELSE s,
             down |-> r.down, ret |-> r.ret, script |-> r.script, io |-> r.io]

\* A mutant of flush_buf: cmd_index is not reduced by the bytes drained.
flush_buf_keepidx(s, dn, script) ==
    LET high_water == s.cmd_index
        r == flush_loop(s.out, 0, high_water, dn, script, <<>>)
    IN IF high_water = 0
       THEN [sink |-> s, down |-> dn, ret |-> "Ok", script |-> script, io |-> <<>>]
       ELSE [sink |-> IF r.written > 0
                      THEN [s EXCEPT !.out = SubSeqFrom(@, r.written)]
                      ELSE s,
             down |-> r.down, ret |-> r.ret, script |-> r.script, io |-> r.io]

\* PrsEncoder::flush_buf on sink s with downstream content dn
flush_buf(s, dn, script) ==
    LET high_water == s.cmd_index
        r == flush_loop(s.out, 0, high_water, dn, script, <<>>)
    IN IF high_water = 0
       THEN [sink |-> s, down |-> dn, ret |-> "Ok", script |-> script, io |-> <<>>]
       ELSE [sink |-> IF r.written > 0
                      THEN [s EXCEPT !.out = SubSeqFrom(@, r.written),
                                     !.cmd_index = @ - r.written]
                      ELSE s,
             down |-> r.down, ret |-> r.ret, script |-> r.script, io |-> r.io]

\* Write::write_all, as into_inner and drop call it on the finished buffer
RECURSIVE write_all(_, _, _, _)
write_all(buf, dn, script, io) ==
    IF buf = <<>> THEN [down |-> dn, ret |-> "Ok", script |-> script, io |-> io]
    ELSE LET r == inner_write(buf, next_resp(script))
             io2 == Append(io, r)
             sc2 == rest_script(script)
         IN IF r.t = "Ok" /\ r.n = 0
            THEN [down |-> dn, ret |-> "WriteZero", script |-> sc2, io |-> io2]
            ELSE IF r.t = "Ok"
            THEN write_all(SubSeqFrom(buf, r.n), dn \o SubSeq(buf, 1, r.n), sc2, io2)
            ELSE IF r.t = "Interrupted" THEN write_all(buf, dn, sc2, io2)
            ELSE [down |-> dn, ret |-> "Other", script |-> sc2, io |-> io2]

(***************************************************************************)
(* The match-finder (libflate_lz77's DefaultLz77Encoder, an external       *)
(* collaborator): encode buffers the chunk and may emit codes for all it   *)
(* holds, flush emits codes for all it holds.  Which codes is its choice:  *)
(* any sequence of literals and pointers that reproduces the bytes, with   *)
(* pointer lengths up to max_length and distances inside the window.       *)
(***************************************************************************)
\* the most codes the match-finder emits in one call
MaxTokens == 2

\* the pointer lengths and distances the match-finder chooses among
PtrLens == {2, 3, 5, 6, 9, 10, 256, 258}

PtrDists == {1, 2, 256}

\* max_length given to the match-finder by PrsEncoder::new
max_length(V) == Min(MAX_LENGTH, MAX_COPY_LENGTH(V))

\* the l bytes after position pos repeat the bytes d before them
Matches(data, pos, l, d) ==
    /\ d <= pos
    /\ pos + l <= Len(data)
    /\ \A k \in 1..l : data[pos + k] = data[pos + k - d]

CodesAt(V, data, pos) ==
    {Literal(data[pos + 1])}
        \cup {Pointer(p[1], p[2]) :
                 p \in {q \in PtrLens \X PtrDists :
                          /\ q[1] <= max_length(V)
                          /\ q[2] <= WINDOW_SIZE
                          /\ Matches(data, pos, q[1], q[2])}}

\* every sequence of at most k codes that covers data from position pos on
RECURSIVE Tokenizations(_, _, _, _)
Tokenizations(V, data, pos, k) ==
    IF pos = Len(data) THEN {<<>>}
    ELSE IF k = 0 \/ Len(data) - pos > k * max_length(V) THEN {}
    ELSE UNION {{<<c>> \o rest : rest \in Tokenizations(V, data, pos + c.length, k - 1)}
                  : c \in CodesAt(V, data, pos)}

(***************************************************************************)
(* PrsEncoder.  An encoder state e is [sink, sink_is_some, inner_is_some,  *)
(* down]; each handler takes the codes the match-finder emits during the   *)
(* call and the downstream's script, and gives [e, ret, io, took,          *)
(* suppressed]: the new state, the returned io::Result kind, the           *)
(* downstream's answers, whether the match-finder was run, and the results *)
(* drop discards (of its flush_buf and of its write_all).                  *)
(***************************************************************************)
\* PrsEncoder::new
NewEncoder ==
    [sink |-> NewSink, sink_is_some |-> TRUE, inner_is_some |-> TRUE, down |-> <<>>]

\* Write::write
write(V, e, codes, script) ==
    LET s1 == consume_all(V, e.sink, codes)
        f == flush_buf(s1, e.down, script)
    IN [e |-> [e EXCEPT !.sink = f.sink, !.down = f.down],
        ret |-> f.ret, io |-> f.io, took |-> TRUE, suppressed |-> <<>>]

\* Write::flush
flush(V, e, script) ==
    LET f == flush_buf(e.sink, e.down, script)
        r == next_resp(f.script)
    IN [e |-> [e EXCEPT !.sink = f.sink, !.down = f.down],
        ret |-> IF f.ret # "Ok" THEN f.ret
                ELSE IF r.t = "Err" THEN "Other"
                ELSE IF r.t = "Interrupted" THEN "Interrupted"
                ELSE "Ok",
        io |-> IF f.ret = "Ok" /\ r.t \in {"Err", "Interrupted"}
               THEN Append(f.io, r) ELSE f.io,
        took |-> FALSE, suppressed |-> <<>>]

\* PrsEncoder::into_inner
into_inner(V, e, codes, script) ==
    LET f == flush_buf(e.sink, e.down, script)
        s2 == finish(consume_all(V, f.sink, codes))
        w == write_all(s2.out, f.down, f.script, f.io)
    IN IF f.ret # "Ok"
       THEN [e |-> [sink |-> f.sink, sink_is_some |-> TRUE,
                    inner_is_some |-> FALSE, down |-> f.down],
             ret |-> f.ret, io |-> f.io, took |-> FALSE, suppressed |-> <<>>]
       ELSE [e |-> [sink |-> s2, sink_is_some |-> FALSE,
                    inner_is_some |-> FALSE, down |-> w.down],
             ret |-> w.ret, io |-> w.io, took |-> TRUE, suppressed |-> <<>>]

\* A mutant of drop: finalizes whenever the sink is present.
drop_unguarded(V, e, codes, script) ==
    LET f == flush_buf(e.sink, e.down, script)
        s2 == finish(consume_all(V, f.sink, codes))
        w == write_all(s2.out, f.down, f.script, f.io)
    IN IF e.sink_is_some
       THEN [e |-> [sink |-> s2, sink_is_some |-> FALSE,
                    inner_is_some |-> FALSE, down |-> w.down],
             ret |-> "Ok", io |-> w.io, took |-> TRUE, suppressed |-> <<f.ret, w.ret>>]
       ELSE [e |-> e, ret |-> "Ok", io |-> <<>>, took |-> FALSE, suppressed |-> <<>>]

\* A mutant of drop: gives up when flush_buf fails, as into_inner does.
drop_stops(V, e, codes, script) ==
    LET f == flush_buf(e.sink, e.down, script)
        s2 == finish(consume_all(V, f.sink, codes))
        w == write_all(s2.out, f.down, f.script, f.io)
    IN IF e.inner_is_some /\ e.sink_is_some /\ f.ret = "Ok"
       THEN [e |-> [sink |-> s2, sink_is_some |-> FALSE,
                    inner_is_some |-> FALSE, down |-> w.down],
             ret |-> "Ok", io |-> w.io, took |-> TRUE, suppressed |-> <<f.ret, w.ret>>]
       ELSE IF e.inner_is_some /\ e.sink_is_some
       THEN [e |-> [sink |-> f.sink, sink_is_some |-> TRUE,
                    inner_is_some |-> TRUE, down |-> f.down],
             ret |-> "Ok", io |-> f.io, took |-> FALSE, suppressed |-> <<f.ret, "Ok">>]
       ELSE [e |-> e, ret |-> "Ok", io |-> <<>>, took |-> FALSE, suppressed |-> <<>>]

\* Drop::drop
drop(V, e, codes, script) ==
    LET f == flush_buf(e.sink, e.down, script)
        s2 == finish(consume_all(V, f.sink, codes))
        w == write_all(s2.out, f.down, f.script, f.io)
    IN IF e.inner_is_some /\ e.sink_is_some
       THEN [e |-> [sink |-> s2, sink_is_some |-> FALSE,
                    inner_is_some |-> FALSE, down |-> w.down],
             ret |-> "Ok", io |-> w.io, took |-> TRUE, suppressed |-> <<f.ret, w.ret>>]
       ELSE [e |-> e, ret |-> "Ok", io |-> <<>>, took |-> FALSE, suppressed |-> <<>>]

(***************************************************************************)
(* The state machine: one encoder, the caller's writes, its end, and the   *)
(* decoding of what the downstream received.                                *)
(***************************************************************************)
\* the most write and flush calls made on one encoder
MaxCalls == 2

\* the first n bytes of pat repeated
Rep(pat, n) == [i \in 1..n |-> pat[((i - 1) % Len(pat)) + 1]]

\* the chunks the caller writes
ChunkLens == {4, 6, 10, 257, 259}

Chunks == {Rep(<<65>>, n) : n \in ChunkLens} \cup {<<65, 66>>, Rep(<<65, 66>>, 6)}

Encoder == [sink |-> sink, sink_is_some |-> sink_is_some,
            inner_is_some |-> inner_is_some, down |-> down]

NoCall == [op |-> "new", ret |-> "Ok", sent |-> 0, suppressed |-> <<>>]

NoDec == [called |-> FALSE, input |-> <<>>,
          res |-> [F \in Variants |-> DecOk(<<>>, <<>>, NewCtx)]]

\* decompress::<F>(buf) for each dialect F
Decompress(buf) ==
    [called |-> TRUE, input |-> buf, res |-> [F \in Variants |-> decompress_buf(F, buf)]]

\* flush_buf on sink s with a downstream that has received nothing
FlushBufOn(called, s, script) ==
    [called |-> called, sink |-> s, script |-> script, res |-> flush_buf(s, <<>>, script)]

\* consume of code by a sink of dialect V that holds one literal, then finish
\* and the decoding of the stream with the same dialect
ConsumeOn(called, V, code) ==
    LET stream == IF consume_panics(V, code) THEN <<>>
                  ELSE finish(consume(V, consume(V, NewSink, Literal(65)), code)).out
    IN [called |-> called, code |-> code, panics |-> consume_panics(V, code),
        stream |-> stream, res |-> decompress_buf(V, stream)]

Init ==
    /\ variant \in Variants
    /\ sink = NewEncoder.sink
    /\ sink_is_some = NewEncoder.sink_is_some
    /\ inner_is_some = NewEncoder.inner_is_some
    /\ down = NewEncoder.down
    /\ raw = <<>>
    /\ enc_pos = 0
    /\ tokens = <<>>
    /\ pc = "open"
    /\ ncalls = 0
    /\ last = NoCall
    /\ dec = NoDec
    /\ fb = FlushBufOn(FALSE, NewSink, <<>>)
    /\ pt = ConsumeOn(FALSE, variant, Literal(65))

\* the effect of a handler's result r on the encoder and the match-finder
Apply(op, r, codes, data) ==
    /\ sink' = r.e.sink
    /\ sink_is_some' = r.e.sink_is_some
    /\ inner_is_some' = r.e.inner_is_some
    /\ down' = r.e.down
    /\ raw' = data
    /\ tokens' = IF r.took THEN tokens \o codes ELSE tokens
    /\ enc_pos' = IF r.took /\ codes # <<>> THEN Len(data) ELSE enc_pos
    /\ last' = IF op = "drop" /\ ~r.took THEN last
               ELSE [op |-> op, ret |-> r.ret, sent |-> Len(r.e.down) - Len(down),
                     suppressed |-> r.suppressed]
    /\ UNCHANGED <<variant, dec, fb, pt>>

\* the match-finder, bounded to MaxTokens codes a call, can cover data
Coverable(data) == Tokenizations(variant, data, enc_pos, MaxTokens) # {}

Write ==
    /\ pc = "open"
    /\ ncalls < MaxCalls
    /\ \E chunk \in Chunks, script \in Scripts :
         /\ Coverable(raw \o chunk)
         /\ \E codes \in {<<>>} \cup Tokenizations(variant, raw \o chunk, enc_pos, MaxTokens) :
              Apply("write", write(variant, Encoder, codes, script), codes, raw \o chunk)
    /\ ncalls' = ncalls + 1
    /\ pc' = pc

Flush ==
    /\ pc = "open"
    /\ ncalls < MaxCalls
    /\ \E script \in Scripts :
         Apply("flush", flush(variant, Encoder, script), <<>>, raw)
    /\ ncalls' = ncalls + 1
    /\ pc' = pc

IntoInner ==
    /\ pc = "open"
    /\ \E script \in Scripts :
         \E codes \in Tokenizations(variant, raw, enc_pos, MaxTokens) :
            Apply("into_inner", into_inner(variant, Encoder, codes, script), codes, raw)
    /\ pc' = "returned"
    /\ UNCHANGED ncalls

\* the encoder goes out of scope: at the end of into_inner, or without it
Drop ==
    /\ pc \in {"open", "returned"}
    /\ \E script \in Scripts :
         \E codes \in Tokenizations(variant, raw, enc_pos, MaxTokens) :
            Apply("drop", drop(variant, Encoder, codes, script), codes, raw)
    /\ pc' = IF pc = "open" THEN "dropped" ELSE "closed"
    /\ UNCHANGED ncalls

\* the caller decodes what the downstream received
Decode ==
    /\ pc \in {"closed", "dropped"}
    /\ dec' = Decompress(down)
    /\ UNCHANGED <<variant, sink, sink_is_some, inner_is_some, down, raw, enc_pos,
                   tokens, pc, ncalls, last, fb, pt>>

Next == Write \/ Flush \/ IntoInner \/ Drop \/ Decode

Spec == Init /\ [][Next]_vars

(***************************************************************************)
(* The decoder alone, on handcrafted streams.                               *)
(***************************************************************************)
MaxStreamLen == 5

StreamBytes == {0, 1, 2, 5, 65, 248, 255}

Streams == UNION {[1..k -> StreamBytes] : k \in 0..MaxStreamLen}

DecodeBuf ==
    /\ pc = "open"
    /\ ~dec.called
    /\ \E buf \in Streams : dec' = Decompress(buf)
    /\ UNCHANGED <<variant, sink, sink_is_some, inner_is_some, down, raw, enc_pos,
                   tokens, pc, ncalls, last, fb, pt>>

SpecDecode == Init /\ [][DecodeBuf]_vars

(***************************************************************************)
(* flush_buf alone, on sinks with 0, 3 and 6 flushable bytes and every     *)
(* script of downstream answers.                                            *)
(***************************************************************************)
MaxFlushCodes == 5

MaxFlushScript == 4

\* a literal followed by short pointers, n codes in all
FlushCodes == {[i \in 1..n |-> IF i = 1 THEN Literal(65) ELSE Pointer(3, 1)] :
                  n \in 0..MaxFlushCodes}

FlushScripts == UNION {[1..k -> Responses] : k \in 0..MaxFlushScript}

FlushBufCall ==
    /\ pc = "open"
    /\ ~fb.called
    /\ \E codes \in FlushCodes, script \in FlushScripts :
          fb' = FlushBufOn(TRUE, consume_all(variant, NewSink, codes), script)
    /\ UNCHANGED <<variant, sink, sink_is_some, inner_is_some, down, raw, enc_pos,
                   tokens, pc, ncalls, last, dec, pt>>

SpecFlush == Init /\ [][FlushBufCall]_vars

(***************************************************************************)
(* consume alone, on pointers of every length up to MaxPtrLen at distances *)
(* around the limits of the two forms.                                      *)
(***************************************************************************)
MaxPtrLen == 267

ProbeDists == {0, 1, 2, 255, 256, 257, 4095, 4096, 8190, 8191, 8192, 8193}

ConsumePointer ==
    /\ pc = "open"
    /\ ~pt.called
    /\ \E l \in 0..MaxPtrLen, d \in ProbeDists :
          pt' = ConsumeOn(TRUE, variant, Pointer(l, d))
    /\ UNCHANGED <<variant, sink, sink_is_some, inner_is_some, down, raw, enc_pos,
                   tokens, pc, ncalls, last, dec, fb>>

SpecCode == Init /\ [][ConsumePointer]_vars

(***************************************************************************)
(* The two dialects side by side: the sink on short token streams, the     *)
(* decoder on handcrafted streams.                                          *)
(***************************************************************************)
MaxDialectCodes == 3

DialectCodes == {Literal(65), Pointer(2, 1), Pointer(5, 2), Pointer(6, 1), Pointer(3, 256),
                 Pointer(9, 256), Pointer(9, 8191), Pointer(10, 1)}

DialectStreams == UNION {[1..k -> DialectCodes] : k \in 1..MaxDialectCodes}

\* a sink of the dialect consumes a token stream
DialectSink ==
    /\ pc = "open"
    /\ tokens = <<>>
    /\ ~dec.called
    /\ \E codes \in DialectStreams :
          /\ tokens' = codes
          /\ sink' = consume_all(variant, NewSink, codes)
    /\ UNCHANGED <<variant, sink_is_some, inner_is_some, down, raw, enc_pos,
                   pc, ncalls, last, dec, fb, pt>>

\* both decoders decode a handcrafted stream
DialectDecode == tokens = <<>> /\ DecodeBuf

SpecDialect == Init /\ [][DialectSink \/ DialectDecode]_vars

(***************************************************************************)
(* Properties.                                                              *)
(***************************************************************************)
\* what a sink that is never flushed holds after the codes and finish
OneShot(V, codes) == finish(consume_all(V, NewSink, codes)).out

IsPrefix(a, b) == Len(a) <= Len(b) /\ a = SubSeq(b, 1, Len(a))

IsExt(code) == code.kind = "Pointer" /\ code.length - 2 >= 8

Other(V) == IF V = "Legacy" THEN "Modern" ELSE "Legacy"

\* into_inner has returned Ok: the stream downstream is finalized
Finalized == pc \in {"returned", "closed"} /\ last.op = "into_inner" /\ last.ret = "Ok"

\* C1: roundtrip.  Whatever was written and whichever valid codes (literals,
\* pointers of length 2..MAX_COPY_LENGTH at a distance within the bytes
\* produced so far) the match-finder chose, once into_inner has returned Ok,
\* decoding the downstream bytes with the encoder's dialect succeeds and
\* gives back exactly the bytes written.
C1_Roundtrip ==
    (Finalized /\ dec.called) =>
        /\ dec.input = down
        /\ dec.res[variant].ok
        /\ dec.res[variant].out = raw

\* a pointer of length 2 that the sink writes in long form
LongLen2(code) == code.kind = "Pointer" /\ code.length = 2 /\ is_long_ptr(code)

\* C1, the part that holds: when no code is a pointer of length 2 in long
\* form, decoding the finalized downstream bytes with the encoder's dialect
\* succeeds and gives back exactly the bytes written.
C1_RoundtripNoLong2 ==
    (Finalized /\ dec.called /\ \A i \in DOMAIN tokens : ~LongLen2(tokens[i])) =>
        /\ dec.input = down
        /\ dec.res[variant].ok
        /\ dec.res[variant].out = raw

\* C1 witness: a finalized and decoded stream of more than 256 bytes whose
\* codes hold a literal, an extended-length pointer, a pointer at distance
\* 256 and no pointer of length 2 in long form, and which decoded to the
\* input.
C1_Witness ==
    /\ Finalized /\ dec.called
    /\ Len(raw) > 256
    /\ \A i \in DOMAIN tokens : ~LongLen2(tokens[i])
    /\ \E i \in DOMAIN tokens : IsExt(tokens[i])
    /\ \E i \in DOMAIN tokens :
          tokens[i].kind = "Pointer" /\ tokens[i].backward_distance = 256
    /\ \E i \in DOMAIN tokens : tokens[i].kind = "Literal"
    /\ dec.res[variant].out = raw

\* C2: an encoder that receives no input and is finalized with into_inner
\* delivers no byte downstream.
C2_EmptyInputEmptyOutput ==
    (pc \in {"returned", "closed"} /\ last.op = "into_inner" /\ raw = <<>>)
        => down = <<>>

\* C3: streaming equivalence.  After a successful into_inner the downstream
\* holds exactly the bytes a never-flushed sink produces from the same codes,
\* however the input was split into writes and however the downstream split
\* the intermediate flushes: any two encoders given the same codes agree.
C3_StreamingEquivalence ==
    Finalized => down = OneShot(variant, tokens)

\* C3 witness: two writes of six bytes each, the second of which flushed a
\* non-empty prefix downstream before into_inner delivered the rest.
C3_Witness ==
    /\ Finalized
    /\ ncalls = 2 /\ Len(raw) = 12
    /\ 0 < last.sent /\ last.sent < Len(down)
    /\ down = OneShot(variant, tokens)

\* the command bits emitted for the codes
RECURSIVE CmdBits(_)
CmdBits(codes) ==
    IF codes = <<>> THEN 0
    ELSE (IF Head(codes).kind = "Literal" THEN 1
          ELSE IF is_long_ptr(Head(codes)) THEN 2 ELSE 4) + CmdBits(Tail(codes))

\* the stream ends with the two zero bytes
EndsWithZeros == Len(down) >= 2 /\ down[Len(down) - 1] = 0 /\ down[Len(down)] = 0

\* the position in the stream of the command byte holding command bit number
\* n (from 0), as a never-flushed sink places it, and the bit's place in it
EofByteOf(k) ==
    LET pre == consume_all(variant, NewSink, tokens)
        fin == finish(pre)
    IN IF k = 0 /\ pre.cmd_bits_rem > 0 THEN pre.cmd_index + 1 ELSE fin.cmd_index + 1

EofBitOf(k) == (CmdBits(tokens) + k) % 8

\* C4 as claimed: a finalized stream of a non-empty input ends with 0x00
\* 0x00, the two command bits before them are 0 then 1, and both lie in one
\* command byte.
C4_EofSentinelOneByte ==
    (Finalized /\ raw # <<>>) =>
        /\ EndsWithZeros
        /\ BitOf(down[EofByteOf(0)], EofBitOf(0)) = 0
        /\ BitOf(down[EofByteOf(1)], EofBitOf(1)) = 1
        /\ EofByteOf(0) = EofByteOf(1)

\* C4 as amended: the stream ends with 0x00 0x00 and the two command bits
\* before them are 0 then 1; they lie in one command byte unless exactly one
\* bit of the in-flight command byte was free at finalization, and then the 0
\* is bit 7 of that byte and the 1 is bit 0 of a fresh command byte placed
\* right before the two zero bytes.
C4_EofSentinel ==
    (Finalized /\ raw # <<>>) =>
        /\ EndsWithZeros
        /\ BitOf(down[EofByteOf(0)], EofBitOf(0)) = 0
        /\ BitOf(down[EofByteOf(1)], EofBitOf(1)) = 1
        /\ \A k \in (EofBitOf(1) + 1)..7 : BitOf(down[EofByteOf(1)], k) = 0
        /\ IF CmdBits(tokens) % 8 = 7
           THEN /\ EofBitOf(0) = 7 /\ EofBitOf(1) = 0
                /\ EofByteOf(0) < EofByteOf(1)
                /\ EofByteOf(1) = Len(down) - 2
           ELSE EofByteOf(0) = EofByteOf(1)

\* C4 witness: a finalized stream whose codes used seven command bits, so
\* that the sentinel's bits fall into two command bytes.
C4_Witness ==
    /\ Finalized /\ raw # <<>>
    /\ CmdBits(tokens) % 8 = 7
    /\ EofByteOf(0) < EofByteOf(1)
    /\ EndsWithZeros

\* the command a decoding met last
LastCmd(r) == r.trace[Len(r.trace)]

\* a pointer the window cannot serve
BadPointer(c) == c.st = "Pointer" /\ (c.dist = 0 \/ c.dist > c.at)

\* C5: whenever the decoder meets a pointer whose distance is 0 or exceeds
\* the bytes produced so far, it stops there with InvalidPointer carrying that
\* distance, the pointer's length and the output length at that moment, and
\* returns no output; the stream 0x01 0x01 0x00 fails with InvalidPointer.
C5_InvalidPointer ==
    dec.called =>
        \A F \in Variants :
            LET r == dec.res[F] IN
            /\ \A i \in DOMAIN r.trace :
                  BadPointer(r.trace[i]) =>
                      /\ i = Len(r.trace)
                      /\ ~r.ok
                      /\ r.out = <<>>
                      /\ r.err = [kind |-> "InvalidPointer", dist |-> r.trace[i].dist,
                                  len |-> r.trace[i].len, current_len |-> r.trace[i].at]
            /\ dec.input = <<1, 1, 0>> => r.err.kind = "InvalidPointer"

\* C5 witness: a decoding that produced a byte and then met a short pointer
\* reaching before the start of the output.
C5_Witness ==
    /\ dec.called
    /\ \E F \in Variants :
          LET r == dec.res[F] IN
          /\ r.trace # <<>>
          /\ BadPointer(LastCmd(r))
          /\ LastCmd(r).at > 0
          /\ r.err.kind = "InvalidPointer"
          /\ r.err.current_len = LastCmd(r).at

\* C6 as claimed: the stream 0x02 0x41 0x00 0x00 decodes to the empty output.
C6_HandcraftedEmpty ==
    (dec.called /\ dec.input = <<2, 65, 0, 0>>) =>
        \A F \in Variants : dec.res[F].ok /\ dec.res[F].out = <<>>

\* C6 as amended: in 0x02 0x41 0x00 0x00 the two bits 0,1 select the long
\* form and the 16-bit little-endian field read after them is 0x0041, a
\* pointer of length 3 at distance 8184, so decoding fails with
\* InvalidPointer; the stream 0x02 0x00 0x00, whose field is 0x0000, is the
\* sentinel alone and decodes to the empty output.
C6_Handcrafted ==
    dec.called =>
        \A F \in Variants :
            LET r == dec.res[F] IN
            /\ dec.input = <<2, 65, 0, 0>> =>
                  /\ ~r.ok
                  /\ r.err = [kind |-> "InvalidPointer", dist |-> 8184, len |-> 3,
                              current_len |-> 0]
                  /\ LastCmd(r).form = "long"
            /\ dec.input = <<2, 0, 0>> =>
                  /\ r.ok /\ r.out = <<>>
                  /\ r.trace = <<[st |-> "None", form |-> "long", dist |-> 0,
                                  len |-> 0, at |-> 0]>>
                  /\ r.pos = 3

\* C6 witness: the handcrafted stream has been decoded and was rejected.
C6_Witness ==
    /\ dec.called
    /\ dec.input = <<2, 65, 0, 0>>
    /\ \A F \in Variants : dec.res[F].err.kind = "InvalidPointer"

\* C7: when the codes hold a pointer with an extended-length byte, decoding
\* a finalized stream with the other dialect fails or gives a buffer that
\* differs from the input, and the two dialects decode each such pointer to
\* lengths that differ by 9.
C7_CrossDialect ==
    (Finalized /\ dec.called /\ \E i \in DOMAIN tokens : IsExt(tokens[i])) =>
        LET same == dec.res[variant]
            cross == dec.res[Other(variant)]
        IN /\ ~cross.ok \/ cross.out # raw
           /\ \A i \in DOMAIN tokens \cap DOMAIN cross.trace :
                 IsExt(tokens[i]) =>
                     /\ cross.trace[i].form = "longext"
                     /\ same.trace[i].form = "longext"
                     /\ cross.trace[i].len - same.trace[i].len \in {9, -9}
                     /\ cross.trace[i].len - same.trace[i].len =
                            MIN_LONG_COPY_LENGTH(Other(variant))
                                - MIN_LONG_COPY_LENGTH(variant)

\* C7 witness: a Modern stream with a pointer of length 10, which the Legacy
\* decoder reads as length 1 and so decodes, without error, to a shorter
\* buffer.
C7_Witness ==
    /\ Finalized /\ dec.called
    /\ variant = "Modern"
    /\ \E i \in DOMAIN tokens : IsExt(tokens[i]) /\ tokens[i].length = 10
    /\ dec.res["Legacy"].ok
    /\ Len(dec.res["Legacy"].out) < Len(raw)
    /\ dec.res["Modern"].out = raw

\* B repeats its first m bytes
IsRep(B, m) == \A i \in (m + 1)..Len(B) : B[i] = B[i - m]

\* the input bytes the first j codes cover
RECURSIVE Covered(_, _)
Covered(codes, j) == IF j = 0 THEN 0 ELSE Covered(codes, j - 1) + codes[j].length

\* the codes of a match-finder that emits the first m bytes of an n-byte
\* input as literals and then, as long as 3 bytes or more are left, a
\* pointer at distance m of the greatest length the encoder allows
Greedy(V, codes, n, m) ==
    \A j \in DOMAIN codes :
        LET at == Covered(codes, j - 1) IN
        IF at < m \/ n - at < 3 THEN codes[j].kind = "Literal"
        ELSE /\ codes[j].kind = "Pointer"
             /\ codes[j].backward_distance = m
             /\ codes[j].length = Min(max_length(V), n - at)

\* C8 as claimed: for an input that repeats a pattern at least 4 times the
\* finalized output is strictly shorter than the input.
C8_ShorterThanInput ==
    (Finalized /\ \E m \in 1..Len(raw) : IsRep(raw, m) /\ Len(raw) >= 4 * m)
        => Len(down) < Len(raw)

\* C8 as amended: for an input of 6 bytes or more that repeats a pattern at
\* least 4 times, and a match-finder that emits the pattern as literals and
\* the rest as pointers of the greatest length at the pattern's distance, the
\* finalized output (command bytes, payload and sentinel) is strictly shorter
\* than the input; the 4-byte repetition of one byte encodes to 5 bytes or
\* more.
C8_Effectiveness ==
    Finalized =>
        /\ \A m \in 1..Len(raw) :
              (/\ IsRep(raw, m) /\ Len(raw) >= 4 * m /\ Len(raw) >= 6
               /\ Greedy(variant, tokens, Len(raw), m))
                  => Len(down) < Len(raw)
        /\ (Len(raw) = 4 /\ IsRep(raw, 1)) => Len(down) >= 5

\* C8 witness: eight bytes repeating a two-byte pattern, emitted as two
\* literals and one pointer, finalized to fewer than eight bytes.
C8_Witness ==
    /\ Finalized
    /\ Len(raw) = 8 /\ IsRep(raw, 2) /\ ~IsRep(raw, 1)
    /\ Greedy(variant, tokens, Len(raw), 2)
    /\ Len(tokens) = 3
    /\ Len(down) < Len(raw)

\* the bytes still to come after a failed flush step: the sink's content, the
\* codes of the input not yet encoded, and the sentinel
Completions ==
    {finish(consume_all(variant, sink, codes)).out :
        codes \in Tokenizations(variant, raw, enc_pos, MaxTokens)}

\* C9: finalization runs at most once.  Once into_inner has returned, with
\* success or failure, the drop of the encoder changes neither the downstream
\* nor the sink.  When the flush step of into_inner fails the call returns
\* the error and gives the writer away, the match-finder is not flushed, the
\* sink is not finished, and the downstream holds a stream that lacks at
\* least the sentinel's command byte and two zero bytes and does not decode
\* to the input.
C9_FinalizeOnce ==
    /\ [][pc = "returned" =>
             /\ down' = down /\ sink' = sink /\ tokens' = tokens
             /\ sink_is_some' = sink_is_some /\ inner_is_some' = inner_is_some
             /\ last' = last]_vars
    /\ []((pc \in {"returned", "closed"} /\ last.op = "into_inner") =>
             /\ ~inner_is_some
             /\ sink_is_some => /\ last.ret # "Ok"
                                /\ sink.cmd_index > 0
                                /\ \A rest \in Completions : Len(rest) >= 3
                                /\ dec.called =>
                                      ~(dec.res[variant].ok /\ dec.res[variant].out = raw))

\* C9 witness: into_inner failed in its flush step after part of the stream
\* had gone downstream, the encoder has been dropped and the downstream
\* content decoded.
C9_Witness ==
    /\ pc = "closed" /\ last.op = "into_inner" /\ last.ret # "Ok"
    /\ sink_is_some /\ ~inner_is_some
    /\ down # <<>>
    /\ dec.called /\ ~dec.res[variant].ok

\* C10: implicit finalization.  Dropping an encoder that into_inner has not
\* consumed discards every error and still flushes the match-finder, finishes
\* the sink and writes it: sink and writer are taken, the input is encoded to
\* its end, what is downstream is a prefix of the complete stream, and when
\* the final write succeeds the downstream holds exactly the bytes into_inner
\* delivers from the same state to a writer that accepts everything.
C10_ImplicitFinalization ==
    [][(pc = "open" /\ pc' = "dropped") =>
          /\ ~sink_is_some' /\ ~inner_is_some'
          /\ last'.op = "drop" /\ last'.ret = "Ok"
          /\ enc_pos' = Len(raw) \/ raw = <<>>
          /\ Len(sink'.out) >= 3
          /\ IsPrefix(down', OneShot(variant, tokens'))
          /\ last'.suppressed[2] = "Ok" =>
                \E codes \in Tokenizations(variant, raw, enc_pos, MaxTokens) :
                    /\ tokens' = tokens \o codes
                    /\ down' = into_inner(variant, Encoder, codes, <<>>).e.down]_vars

\* C10 witness: a dropped encoder whose flush_buf failed and whose final write
\* succeeded, leaving the complete stream downstream.
C10_Witness ==
    /\ pc = "dropped" /\ last.op = "drop"
    /\ last.suppressed[1] # "Ok" /\ last.suppressed[2] = "Ok"
    /\ raw # <<>>
    /\ down = OneShot(variant, tokens)

\* the decoding r of input met neither the sentinel nor a pointer the window
\* cannot serve
RanOut(r) ==
    \A i \in DOMAIN r.trace : r.trace[i].st # "None" /\ ~BadPointer(r.trace[i])

\* C11: the decoder succeeds only on the empty input or after it has read
\* the sentinel's two zero bytes; a non-empty input that runs out before a
\* sentinel (at a command byte, a literal byte, a pointer's offset bytes or
\* the extended-length byte) fails with Eof; a failure returns no output;
\* and the decoder never reads past the input nor decodes more commands than
\* the input has bytes.
C11_EofOrSentinel ==
    dec.called =>
        \A F \in Variants :
            LET r == dec.res[F] IN
            /\ r.ok => \/ dec.input = <<>>
                       \/ /\ r.trace # <<>>
                          /\ LastCmd(r).st = "None"
                          /\ r.pos >= 3
                          /\ dec.input[r.pos - 1] = 0 /\ dec.input[r.pos] = 0
            /\ ~r.ok => r.out = <<>> /\ r.err.kind \in {"Eof", "InvalidPointer"}
            /\ (dec.input # <<>> /\ RanOut(r)) => r.err.kind = "Eof"
            /\ r.err.kind = "Eof" => RanOut(r)
            /\ Len(r.trace) <= Len(dec.input) /\ r.pos <= Len(dec.input)
            /\ dec.input \in {<<1>>, <<0>>, <<2, 5>>, <<2, 248, 255>>, <<1, 65, 255>>}
                  => r.err.kind = "Eof"

\* C11 witness: a literal and a short pointer were decoded and the input ran
\* out where the next command byte was due.
C11_Witness ==
    /\ dec.called
    /\ dec.input = <<1, 65, 255>>
    /\ \A F \in Variants :
          /\ dec.res[F].err.kind = "Eof"
          /\ Len(dec.res[F].trace) = 2
          /\ dec.res[F].pos = 3

\* C17 as claimed: every pointer command the decoder produces has a distance
\* in 1..8191, and one of the short form a distance in 1..255 and a length in
\* 2..5.
C17_DecodedRanges ==
    dec.called =>
        \A F \in Variants : \A i \in DOMAIN dec.res[F].trace :
            LET c == dec.res[F].trace[i] IN
            c.st = "Pointer" =>
                /\ c.dist \in 1..8191
                /\ c.form = "short" => c.dist \in 1..255 /\ c.len \in 2..5

\* C17 as amended: every pointer command the decoder produces has a distance
\* in 1..8192, and one of the short form a distance in 1..256 and a length in
\* 2..5; a long field whose upper 13 bits are zero gives the distance 8192 and
\* a short offset byte 0x00 gives the distance 256.
C17_DecodedRangesWide ==
    dec.called =>
        \A F \in Variants :
            LET r == dec.res[F] IN
            /\ \A i \in DOMAIN r.trace :
                  r.trace[i].st = "Pointer" =>
                      /\ r.trace[i].dist \in 1..8192
                      /\ r.trace[i].form = "short" =>
                            r.trace[i].dist \in 1..256 /\ r.trace[i].len \in 2..5
            /\ dec.input = <<2, 1, 0>> =>
                  LastCmd(r).form = "long" /\ LastCmd(r).dist = 8192
            /\ dec.input = <<1, 1, 0>> =>
                  LastCmd(r).form = "short" /\ LastCmd(r).dist = 256

\* C17 witness: a decoding that produced a long pointer at distance 8192.
C17_Witness ==
    /\ dec.called
    /\ \E F \in Variants : \E i \in DOMAIN dec.res[F].trace :
          /\ dec.res[F].trace[i].form = "long"
          /\ dec.res[F].trace[i].dist = 8192

\* the sink as it would be had no flush happened
SinkOf(codes) == consume_all(variant, NewSink, codes)

Unflushed == SinkOf(tokens)

\* C12: flush discipline.  While the encoder is open, and when the flush
\* step of into_inner fails, what has gone downstream is the head of the
\* unflushed sink's output and ends strictly before its command byte in
\* flight, which stays in the buffer with everything after it; nothing is
\* sent when cmd_index is 0; and no step ever changes a byte already
\* downstream.
C12_FlushDiscipline ==
    /\ [](sink_is_some =>
             /\ Len(down) <= Unflushed.cmd_index
             /\ down = SubSeq(Unflushed.out, 1, Len(down))
             /\ sink.out # <<>> => sink.cmd_index \in 0..(Len(sink.out) - 1))
    /\ [][/\ IsPrefix(down, down')
          /\ (sink_is_some' /\ SinkOf(tokens').cmd_index = Len(down)) => down' = down]_vars

\* C12 witness: an open encoder that has sent bytes downstream and still
\* holds its command byte in flight and a payload byte after it.
C12_Witness ==
    /\ pc = "open" /\ sink_is_some
    /\ down # <<>>
    /\ sink.cmd_index + 1 < Len(sink.out)
    /\ sink.cmd_bits_rem > 0

\* C13: after flush_buf, with any outcome, the bytes downstream followed by
\* the retained buffer are the unflushed sink's output, cmd_index is reduced
\* by the number of bytes downstream, and out[cmd_index] is still the command
\* byte in flight with the same free bits.
C13_FlushAccounting ==
    sink_is_some =>
        /\ down \o sink.out = Unflushed.out
        /\ sink.cmd_index = Unflushed.cmd_index - Len(down)
        /\ sink.cmd_index >= 0
        /\ sink.cmd_bits_rem = Unflushed.cmd_bits_rem
        /\ sink.out # <<>> =>
              /\ sink.cmd_index < Len(sink.out)
              /\ sink.out[sink.cmd_index + 1] = Unflushed.out[Unflushed.cmd_index + 1]

\* C13 witness: a write whose flush_buf failed with an I/O error after the
\* downstream had accepted part of the flushable bytes.
C13_Witness ==
    /\ pc = "open" /\ sink_is_some
    /\ last.op = "write" /\ last.ret = "Other"
    /\ last.sent > 0
    /\ sink.cmd_index > 0

\* the command bits a code emits, in emission order
CodeBits(code) ==
    IF code.kind = "Literal" THEN <<1>>
    ELSE IF is_long_ptr(code) THEN <<0, 1>>
    ELSE <<0, 0, ((code.length - 2) \div 2) % 2, (code.length - 2) % 2>>

RECURSIVE BitSeq(_)
BitSeq(codes) == IF codes = <<>> THEN <<>> ELSE CodeBits(Head(codes)) \o BitSeq(Tail(codes))

\* C15: sink invariant.  After every consume, whatever was flushed in
\* between, cmd_bits_rem is in 0..8, cmd_index is a position of out when out
\* is not empty, the command byte in flight holds the latest 8 - cmd_bits_rem
\* command bits in emission order from bit 0, and its higher bits are zero.
C15_SinkInvariant ==
    sink_is_some =>
        LET bits == BitSeq(tokens)
            n == Len(bits)
            used == 8 - sink.cmd_bits_rem
        IN /\ sink.cmd_bits_rem \in 0..8
           /\ sink.out # <<>> => sink.cmd_index \in 0..(Len(sink.out) - 1)
           /\ n = 0 => sink.out = <<>> /\ sink.cmd_bits_rem = 0
           /\ n > 0 =>
                 /\ used = ((n - 1) % 8) + 1
                 /\ \A k \in 0..7 :
                       BitOf(sink.out[sink.cmd_index + 1], k) =
                           IF k < used THEN bits[n - used + k + 1] ELSE 0

\* C15 witness: an open encoder that flushed a full command byte downstream
\* and whose command byte in flight holds bits of a short pointer.
C15_Witness ==
    /\ pc = "open" /\ sink_is_some
    /\ down # <<>>
    /\ Len(BitSeq(tokens)) > 8
    /\ sink.cmd_bits_rem \in 1..7
    /\ sink.out[sink.cmd_index + 1] # 0

\* the bytes the downstream accepted over the calls io
RECURSIVE Accepted(_)
Accepted(io) ==
    IF io = <<>> THEN 0
    ELSE (IF Head(io).t = "Ok" THEN Head(io).n ELSE 0) + Accepted(Tail(io))

NotInterrupted(r) == r.t # "Interrupted"

\* C14: the outcomes of the downstream writes of one flush_buf.  Every call
\* but the last was a short or full write of at least one byte, after which
\* the flush went on with the rest, or was Interrupted, after which the same
\* bytes were offered again; the flush ends Ok when all flushable bytes are
\* accepted, with WriteZero at a write of zero bytes, with the error at any
\* other error; the bytes downstream are the accepted head of the buffer in
\* order; Interrupted answers change nothing of the result; and the number
\* of calls that are not Interrupted never exceeds the flushable bytes.
C14_WriteOutcomes ==
    fb.called =>
        LET r == fb.res
            io == r.io
            hw == fb.sink.cmd_index
            n == Len(io)
            plain == flush_buf(fb.sink, <<>>, SelectSeq(fb.script, NotInterrupted))
        IN /\ \A i \in 1..(n - 1) :
                 \/ io[i].t = "Interrupted"
                 \/ io[i].t = "Ok" /\ io[i].n > 0
           /\ \A i \in 1..n :
                 io[i].t = "Ok" => io[i].n <= hw - Accepted(SubSeq(io, 1, i - 1))
           /\ r.down = SubSeq(fb.sink.out, 1, Accepted(io))
           /\ r.sink.out = SubSeqFrom(fb.sink.out, Accepted(io))
           /\ r.ret = "Ok" <=> Accepted(io) = hw
           /\ r.ret = "WriteZero" <=> (n > 0 /\ io[n] = [t |-> "Ok", n |-> 0])
           /\ r.ret = "Other" <=> (n > 0 /\ io[n].t = "Err")
           /\ r.ret \in {"Ok", "WriteZero", "Other"}
           /\ Len(SelectSeq(io, NotInterrupted)) <= hw
           /\ plain.down = r.down /\ plain.ret = r.ret /\ plain.sink = r.sink

\* C14 witness: a flush of 6 bytes that met a short write, an Interrupted
\* write, another short write and then a write of zero bytes.
C14_Witness ==
    /\ fb.called
    /\ fb.sink.cmd_index = 6
    /\ Len(fb.res.io) = 4
    /\ fb.res.io[1] = [t |-> "Ok", n |-> 1]
    /\ fb.res.io[2].t = "Interrupted"
    /\ fb.res.io[3] = [t |-> "Ok", n |-> 1]
    /\ fb.res.ret = "WriteZero"
    /\ fb.res.down = SubSeq(fb.sink.out, 1, 2)

\* the pointer command the decoder read after the literal of pt.stream
ReadBack == pt.res.trace[2]

\* C16: a pointer the sink encodes in long form with length - 2 < 8 (length
\* 2..9 at distance 256 or more, length 6..9 at any distance) is written as
\* the 16-bit field alone, and the decoder of the same dialect reads the
\* field back, without an extended-length byte, as the same length and
\* distance.
C16_LongWithoutExt ==
    (pt.called /\ ~pt.panics /\ is_long_ptr(pt.code) /\ pt.code.length - 2 < 8) =>
        /\ \/ pt.code.length \in 2..9 /\ pt.code.backward_distance >= 256
           \/ pt.code.length \in 6..9
        /\ Len(pt.stream) = 6
        /\ pt.stream[5] = 0 /\ pt.stream[6] = 0
        /\ ReadBack.st = "Pointer" /\ ReadBack.form = "long"
        /\ ReadBack.len = pt.code.length
        /\ ReadBack.dist = pt.code.backward_distance

\* C18: consume panics exactly when the pointer's length is below 2 or above
\* MAX_COPY_LENGTH or its distance is 8192 or more, and every pointer it
\* accepts has a length in 2..MAX_COPY_LENGTH and a distance in 1..8191.
C18_PanicsExactly ==
    pt.called =>
        /\ pt.panics <=> \/ pt.code.length < 2
                         \/ pt.code.length > MAX_COPY_LENGTH(variant)
                         \/ pt.code.backward_distance >= 8192
        /\ ~pt.panics => /\ pt.code.length \in 2..MAX_COPY_LENGTH(variant)
                         /\ pt.code.backward_distance \in 1..8191

\* C19: for every pointer consume accepts, the 16-bit field written in long
\* form is not 0x0000, the decoder reads it as a pointer, and a stream the
\* decoder accepts is decoded up to its last byte.
C19_SentinelOnlyAtEnd ==
    (pt.called /\ ~pt.panics /\ is_long_ptr(pt.code)) =>
        /\ <<pt.stream[3], pt.stream[4]>> # <<0, 0>>
        /\ ReadBack.st = "Pointer"
        /\ pt.res.ok => pt.res.pos = Len(pt.stream)

\* C20: for every accepted pointer with length - 2 >= 8 the value length -
\* MIN_LONG_COPY_LENGTH is in 0..255, it is the extended-length byte written
\* after the field, adding MIN_LONG_COPY_LENGTH to that byte gives the length
\* back, and the decoder of the same dialect, for the distances 1..8191 of
\* the token contract, reads the pointer in the extended form with that
\* length.
C20_ExtByte ==
    (pt.called /\ ~pt.panics /\ pt.code.length - 2 >= 8) =>
        LET ext == pt.code.length - MIN_LONG_COPY_LENGTH(variant) IN
        /\ is_long_ptr(pt.code)
        /\ ext \in 0..255
        /\ Len(pt.stream) = 7
        /\ pt.stream[5] = ext
        /\ pt.stream[5] + MIN_LONG_COPY_LENGTH(variant) = pt.code.length
        /\ pt.code.backward_distance >= 1 =>
              /\ ReadBack.st = "Pointer" /\ ReadBack.form = "longext"
              /\ ReadBack.len = pt.code.length
              /\ ReadBack.dist = pt.code.backward_distance

\* C20 witness: the longest pointer of the dialect, at distance 1, was
\* encoded with the extended-length byte 255 and decoded to the literal and
\* its copies.
C20_Witness ==
    /\ pt.called /\ ~pt.panics
    /\ pt.code.length = MAX_COPY_LENGTH(variant) /\ pt.code.backward_distance = 1
    /\ pt.stream[5] = 255
    /\ pt.res.ok /\ Len(pt.res.out) = 1 + pt.code.length
    /\ pt.res.pos = Len(pt.stream)

\* no pointer of the token stream takes the extended-length byte
NoExtCode(codes) == \A i \in DOMAIN codes : codes[i].kind = "Pointer" => codes[i].length <= 9

\* the decoder read no long pointer with a zero size field
NoExtCmd(r) == \A i \in DOMAIN r.trace : r.trace[i].form # "longext"

\* C21: for every token stream whose pointers all have length 9 or less the
\* Legacy sink and the Modern sink hold the same bytes and command state and
\* finish to the same output, and for every input in which the decoder meets
\* no long pointer with a zero size field the Legacy decoder and the Modern
\* decoder return the same result (output or error, and position).
C21_DialectsAgree ==
    /\ (tokens # <<>> /\ NoExtCode(tokens)) =>
          /\ sink = consume_all(Other(variant), NewSink, tokens)
          /\ OneShot("Legacy", tokens) = OneShot("Modern", tokens)
          /\ finish(sink).out = OneShot(Other(variant), tokens)
    /\ (dec.called /\ NoExtCmd(dec.res[variant])) =>
          /\ NoExtCmd(dec.res[Other(variant)])
          /\ dec.res["Legacy"] = dec.res["Modern"]

\* C21 witness: a sink consumed a literal, a long pointer of length 9 and a
\* short pointer, and the other dialect's sink finishes to the same bytes.
C21_Witness ==
    /\ tokens = <<Literal(65), Pointer(9, 256), Pointer(5, 2)>>
    /\ sink = consume_all(variant, NewSink, tokens)
    /\ finish(sink).out = OneShot(Other(variant), tokens)
    /\ Len(finish(sink).out) = 8

\* a step of Write::write
WriteStep == ncalls' = ncalls + 1 /\ last'.op = "write"

\* C22: a write call accepts its chunk whole or not at all: when it returns
\* Ok the match-finder has taken the whole chunk, and when it returns an
\* error the bytes the match-finder has taken, the codes it has emitted and
\* the sink are as they were before the call.
C22_WriteAllOrNothing ==
    [][WriteStep =>
          /\ last'.ret = "Ok" => IsPrefix(raw, raw') /\ \E chunk \in Chunks : raw' = raw \o chunk
          /\ last'.ret # "Ok" => raw' = raw /\ tokens' = tokens /\ sink' = sink]_vars

====
